---- MODULE Spec2Model ----
(***************************************************************************)
(* Model of leptos_dom/src/lib.rs on the browser target                    *)
(* (cfg(all(target_arch = "wasm32", feature = "web"))): the Node values    *)
(* (Element, Text, Component), the backend (DOM) nodes their WebSysNode    *)
(* handles wrap, mount_child, the IntoNode conversions and the drop glue   *)
(* that runs WebSysNode::drop.                                             *)
(*                                                                         *)
(* Backend nodes are numbered 1, 2, ... in creation order; 0 is "no node"  *)
(* (a null parent).  The backend operations follow the DOM standard:       *)
(* appendChild / ChildNode.before pre-insert the node (a DocumentFragment  *)
(* is emptied into the target), reject a node that is an inclusive         *)
(* ancestor of the parent or a parent that cannot have children, and       *)
(* ChildNode.remove detaches a node from its parent.                       *)
(***************************************************************************)
EXTENDS Integers, Sequences, FiniteSets, TLC

\* Number of Node values constructed in one behaviour.
MaxNodes == 3
\* The same, in behaviours that also clone handles.
MaxCloneNodes == 2
\* Number of mount_child calls in one behaviour.
MaxMounts == 2

\* A Component creates three backend objects: fragment, opening, closing.
MaxHandles == 3 * MaxNodes
Handles == 1..MaxHandles

\* el.name() / el.is_void() pairs handed to Element::new.
ElementInputs == {<<"div", FALSE>>, <<"br", TRUE>>}
TextInputs == {"a"}
ComponentInputs == {"Foo"}
Scopes == {1, 2}

VARIABLES
    kind,        \* backend: handle -> "none" | "element" | "text" | "comment" | "fragment"
    data,        \* backend: handle -> tag name / character data
    childNodes,  \* backend: handle -> sequence of child handles
    nextHandle,  \* next backend object to create
    created,     \* number of Node values constructed so far
    mounts,      \* number of mount_child calls so far
    live,        \* Node values owned by the caller (not inside a child list)
    last         \* the last operation, its arguments, and its outcome

vars == <<kind, data, childNodes, nextHandle, created, mounts, live, last>>

-----------------------------------------------------------------------------
(* Sequences *)

Range(s) == {s[i] : i \in DOMAIN s}

IndexOf(s, x) == CHOOSE i \in DOMAIN s : s[i] = x

RECURSIVE Flatten(_)
Flatten(ss) == IF ss = <<>> THEN <<>> ELSE Head(ss) \o Flatten(Tail(ss))

-----------------------------------------------------------------------------
(* The document backend *)

\* node.parentNode, 0 when there is none.
ParentOf(cn, h) ==
    LET ps == {p \in DOMAIN cn : \E i \in DOMAIN cn[p] : cn[p][i] = h}
    IN  IF ps = {} THEN 0 ELSE CHOOSE p \in ps : TRUE

RECURSIVE IsInclusiveAncestor(_, _, _)
IsInclusiveAncestor(cn, a, h) ==
    \/ a = h
    \/ /\ ParentOf(cn, h) # 0
       /\ IsInclusiveAncestor(cn, a, ParentOf(cn, h))

\* ChildNode.remove(): detach h from its parent; nothing if it has none.
RemoveFromParent(cn, h) ==
    [p \in DOMAIN cn |-> SelectSeq(cn[p], LAMBDA x : x # h)]

\* The nodes an insertion of `node` moves: a fragment's children, else itself.
MovedBy(cn, k, node) == IF k[node] = "fragment" THEN cn[node] ELSE <<node>>

InsertBefore(s, ref, moved) ==
    IF ref = 0
    THEN s \o moved
    ELSE LET i == IndexOf(s, ref)
         IN  SubSeq(s, 1, i - 1) \o moved \o SubSeq(s, i, Len(s))

\* DOM "pre-insert node into parent before ref" (ref = 0: append).
PreInsert(cn, k, parent, node, ref) ==
    IF \/ k[parent] \notin {"element", "fragment"}
       \/ IsInclusiveAncestor(cn, node, parent)
    THEN [ok |-> FALSE, cn |-> cn]
    ELSE LET moved == MovedBy(cn, k, node)
             cn1 == IF k[node] = "fragment"
                    THEN [cn EXCEPT ![node] = <<>>]
                    ELSE RemoveFromParent(cn, node)
         IN  [ok |-> TRUE,
              cn |-> [cn1 EXCEPT ![parent] = InsertBefore(cn1[parent], ref, moved)]]

\* Node.appendChild(child)
AppendChild(cn, k, parent, node) == PreInsert(cn, k, parent, node, 0)

\* Mutation: ChildNode.replaceWith(node) called in place of before(node).
Before_ReplaceWith(cn, k, anchor, node) ==
    IF ParentOf(cn, anchor) = 0
    THEN [ok |-> TRUE, cn |-> cn]
    ELSE LET r == PreInsert(cn, k, ParentOf(cn, anchor), node, anchor)
         IN  [ok |-> r.ok,
              cn |-> IF r.ok THEN RemoveFromParent(r.cn, anchor) ELSE r.cn]

\* ChildNode.before(node): nothing when the anchor has no parent.
Before(cn, k, anchor, node) ==
    IF ParentOf(cn, anchor) = 0
    THEN [ok |-> TRUE, cn |-> cn]
    ELSE PreInsert(cn, k, ParentOf(cn, anchor), node, anchor)

-----------------------------------------------------------------------------
(* Node values *)

\* Mutation: Element::new starts the child list with a placeholder child.
ElementValue_WithChild(h, name, void) ==
    [type |-> "Element", node |-> h, is_void |-> void, content |-> name,
     attributes |-> <<>>, fragment |-> 0, opening |-> 0, closing |-> 0,
     children |-> <<[type |-> "Text", node |-> h, is_void |-> FALSE,
                     content |-> "", attributes |-> <<>>, fragment |-> 0,
                     opening |-> 0, closing |-> 0, children |-> <<>>]>>]

\* struct Element { _name, is_void, node, attributes, children }
ElementValue(h, name, void) ==
    [type |-> "Element", node |-> h, is_void |-> void, content |-> name,
     attributes |-> <<>>, fragment |-> 0, opening |-> 0, closing |-> 0,
     children |-> <<>>]

\* struct Text { node, content }
TextValue(h, content) ==
    [type |-> "Text", node |-> h, is_void |-> FALSE, content |-> content,
     attributes |-> <<>>, fragment |-> 0, opening |-> 0, closing |-> 0,
     children |-> <<>>]

\* struct Component { document_fragment, name, opening, children, closing }
ComponentValue(f, o, c, name) ==
    [type |-> "Component", node |-> 0, is_void |-> FALSE, content |-> name,
     attributes |-> <<>>, fragment |-> f, opening |-> o, closing |-> c,
     children |-> <<>>]

\* Comment::new: the character data is format!(" {content} ").
CommentData(content) == " " \o content \o " "

\* Node::get_web_sys_node
GetWebSysNode(n) ==
    IF n.type = "Component" THEN n.fragment ELSE n.node

\* The order in which dropping a Node runs WebSysNode::drop: fields are
\* dropped in declaration order, a Vec drops its elements first to last.
RECURSIVE DropOrder(_)
DropOrder(n) ==
    LET kids == Flatten([i \in DOMAIN n.children |-> DropOrder(n.children[i])])
    IN  IF n.type = "Component"
        THEN <<n.opening>> \o kids \o <<n.closing>>
        ELSE <<n.node>> \o kids

\* Mutation: dropping a WebSysNode leaves the backend node where it is.
WebSysNodeDrop_Keep(cn, h) == cn

\* impl Drop for WebSysNode: self.0.remove()
WebSysNodeDrop(cn, h) == RemoveFromParent(cn, h)

RECURSIVE DropAll(_, _)
DropAll(cn, hs) ==
    IF hs = <<>> THEN cn ELSE DropAll(WebSysNodeDrop(cn, Head(hs)), Tail(hs))

\* Every Node value reachable from a set of owners, through the child lists.
RECURSIVE Within(_)
Within(n) ==
    {n} \cup UNION {Within(n.children[i]) : i \in DOMAIN n.children}

AllNodes == UNION {Within(n) : n \in live}

\* The backend handles a Node value holds a WebSysNode for.
OwnHandles(n) ==
    IF n.type = "Component" THEN {n.opening, n.closing} ELSE {n.node}

-----------------------------------------------------------------------------
(* Conversion protocol *)

\* Unit.into_node: the empty placeholder.
UnitIntoNode(cx, h) == TextValue(h, "")

\* impl IntoNode for ()
IntoNodeUnit(cx, h) == UnitIntoNode(cx, h)

\* impl IntoNode for Node
IntoNodeNode(n, cx) == n

\* A producer value: (), a Node, or an Option<T> with T one of the two.
NoNode == [type |-> "None", node |-> 0, is_void |-> FALSE, content |-> "",
           attributes |-> <<>>, fragment |-> 0, opening |-> 0, closing |-> 0,
           children |-> <<>>]

UnitProducer == [ty |-> "()", some |-> FALSE, inner |-> "()", node |-> NoNode]
NodeProducer(n) == [ty |-> "Node", some |-> FALSE, inner |-> "Node", node |-> n]
NoneProducer(t) == [ty |-> "Option", some |-> FALSE, inner |-> t, node |-> NoNode]
SomeUnitProducer == [ty |-> "Option", some |-> TRUE, inner |-> "()", node |-> NoNode]
SomeNodeProducer(n) == [ty |-> "Option", some |-> TRUE, inner |-> "Node", node |-> n]

\* Mutation: None converts to a text node of its own, not the Unit placeholder.
IntoNodeOption_NoneText(p, cx, h) ==
    IF p.some
    THEN IF p.inner = "()" THEN IntoNodeUnit(cx, h) ELSE IntoNodeNode(p.node, cx)
    ELSE TextValue(h, "None")

\* impl<T: IntoNode> IntoNode for Option<T>
IntoNodeOption(p, cx, h) ==
    IF p.some
    THEN IF p.inner = "()" THEN IntoNodeUnit(cx, h) ELSE IntoNodeNode(p.node, cx)
    ELSE UnitIntoNode(cx, h)

\* IntoNode::into_node, dispatched on the producer's type.
IntoNode(p, cx, h) ==
    CASE p.ty = "()"     -> IntoNodeUnit(cx, h)
      [] p.ty = "Node"   -> IntoNodeNode(p.node, cx)
      [] p.ty = "Option" -> IntoNodeOption(p, cx, h)

Producers ==
    {UnitProducer, SomeUnitProducer, NoneProducer("()"), NoneProducer("Node")}
        \cup {NodeProducer(n) : n \in live}
        \cup {SomeNodeProducer(n) : n \in live}

-----------------------------------------------------------------------------
(* Operations *)

Idle == [op |-> "init", kind |-> "", target |-> 0, parent |-> 0, node |-> NoNode,
         pre |-> <<>>, moved |-> <<>>, ok |-> TRUE, outcome |-> "",
         producer |-> UnitProducer, cx |-> 0, trip |-> FALSE]

Init ==
    /\ kind = [h \in Handles |-> "none"]
    /\ data = [h \in Handles |-> ""]
    /\ childNodes = [h \in Handles |-> <<>>]
    /\ nextHandle = 1
    /\ created = 0
    /\ mounts = 0
    /\ live = {}
    /\ last = Idle

\* document().create_element / create_text_node / create_comment /
\* create_document_fragment: a new backend object with no parent.
Create(k, d, h, what, text) ==
    [kind |-> [k EXCEPT ![h] = what], data |-> [d EXCEPT ![h] = text]]

\* Element::new(el)
ElementNew(el) ==
    LET h == nextHandle
        b == Create(kind, data, h, "element", el[1])
        n == ElementValue(h, el[1], el[2])
    IN  /\ kind' = b.kind
        /\ data' = b.data
        /\ nextHandle' = h + 1
        /\ created' = created + 1
        /\ live' = live \cup {n}
        /\ last' = [Idle EXCEPT !.op = "Element::new", !.node = n]
        /\ UNCHANGED <<childNodes, mounts>>

\* Text::new(content)
TextNew(content) ==
    LET h == nextHandle
        b == Create(kind, data, h, "text", content)
        n == TextValue(h, content)
    IN  /\ kind' = b.kind
        /\ data' = b.data
        /\ nextHandle' = h + 1
        /\ created' = created + 1
        /\ live' = live \cup {n}
        /\ last' = [Idle EXCEPT !.op = "Text::new", !.node = n]
        /\ UNCHANGED <<childNodes, mounts>>

\* Mutation: the markers are appended to the oldest backend node, not to
\* the new fragment.
AppendWithNode2_Mounted(cn, f, o, c) == [cn EXCEPT ![1] = cn[1] \o <<o, c>>]

\* fragment.append_with_node_2(&opening, &closing) on the new fragment
AppendWithNode2(cn, f, o, c) == [cn EXCEPT ![f] = cn[f] \o <<o, c>>]

\* Component::new(name)
ComponentNew(name) ==
    LET f == nextHandle
        o == nextHandle + 1
        c == nextHandle + 2
        b1 == Create(kind, data, f, "fragment", "")
        b2 == Create(b1.kind, b1.data, o, "comment", CommentData("<" \o name \o ">"))
        b3 == Create(b2.kind, b2.data, c, "comment", CommentData("</" \o name \o ">"))
        n == ComponentValue(f, o, c, name)
    IN  /\ kind' = b3.kind
        /\ data' = b3.data
        /\ childNodes' = AppendWithNode2(childNodes, f, o, c)
        /\ nextHandle' = c + 1
        /\ created' = created + 1
        /\ live' = live \cup {n}
        /\ last' = [Idle EXCEPT !.op = "Component::new", !.node = n]
        /\ UNCHANGED mounts

\* Every WebSysNode value held by a Node (each can be cloned).
WebSysNodes == UNION {OwnHandles(n) : n \in AllNodes}

\* The element nodes a caller can borrow as MountKind::Element(&WebSysNode).
ElementNodes == {n.node : n \in {m \in AllNodes : m.type = "Element"}}

\* The closing Comments a caller can borrow as MountKind::Component(&Comment).
ClosingComments == {n.closing : n \in {m \in AllNodes : m.type = "Component"}}

\* The backend call of mount_child: closing.before(child) or el.append_child(child).
MountInsert(cn, k, mk, target, child) ==
    IF mk = "Component"
    THEN Before(cn, k, target, GetWebSysNode(child))
    ELSE AppendChild(cn, k, target, GetWebSysNode(child))

\* How mount_child ends: .expect() panics on a backend error, and the
\* statement after the match is todo!().
MountOutcome(mk, ok) ==
    IF ~ok
    THEN IF mk = "Component" THEN "panic: before to not err"
                             ELSE "panic: append operation to not err"
    ELSE "panic: not yet implemented"

MountRecord(mk, target, child, res) ==
    LET parent == IF mk = "Component" THEN ParentOf(childNodes, target) ELSE target
    IN  [Idle EXCEPT !.op = "mount_child", !.kind = mk, !.target = target,
                     !.parent = parent, !.node = child,
                     !.pre = IF parent = 0 THEN <<>> ELSE childNodes[parent],
                     !.moved = IF res.ok /\ parent # 0
                               THEN MovedBy(childNodes, kind, GetWebSysNode(child))
                               ELSE <<>>,
                     !.ok = res.ok, !.outcome = MountOutcome(mk, res.ok)]

\* mount_child(kind, &child).  The panic that ends it does not undo the
\* backend call: the insertion stays, no destructor runs, and the embedding
\* page can call in again.
MountChild(mk, target, child) ==
    LET res == MountInsert(childNodes, kind, mk, target, child)
    IN  /\ mounts < MaxMounts
        /\ mounts' = mounts + 1
        /\ childNodes' = res.cn
        /\ last' = MountRecord(mk, target, child, res)
        /\ UNCHANGED <<kind, data, nextHandle, created, live>>

\* Appending a child to a component: the child is mounted before the closing
\* marker and moved into the component's child list.
ComponentAppend(c, n) ==
    LET res == MountInsert(childNodes, kind, "Component", c.closing, n)
    IN  /\ mounts < MaxMounts
        /\ mounts' = mounts + 1
        /\ childNodes' = res.cn
        /\ last' = [MountRecord("Component", c.closing, n, res) EXCEPT !.op = "append"]
        /\ live' = IF res.ok
                   THEN (live \ {c, n}) \cup {[c EXCEPT !.children = Append(@, n)]}
                   ELSE live
        /\ UNCHANGED <<kind, data, nextHandle, created>>

\* Dropping a Node value the caller owns.
DropNode(n) ==
    /\ childNodes' = DropAll(childNodes, DropOrder(n))
    /\ live' = live \ {n}
    /\ last' = IF last.op = "mount_child" /\ last.kind = "Element"
                  /\ last.node = n /\ last.ok
               THEN [last EXCEPT !.op = "drop", !.trip = TRUE]
               ELSE [Idle EXCEPT !.op = "drop", !.node = n]
    /\ UNCHANGED <<kind, data, nextHandle, created, mounts>>

\* #[derive(Clone)] on WebSysNode and Comment: a handler clones the value into
\* a temporary, and WebSysNode::drop runs on the temporary when it goes out
\* of scope.
CloneDropped(h) ==
    /\ childNodes' = WebSysNodeDrop(childNodes, h)
    /\ last' = [Idle EXCEPT !.op = "drop_clone", !.target = h,
                            !.parent = ParentOf(childNodes, h)]
    /\ UNCHANGED <<kind, data, nextHandle, created, mounts, live>>

\* producer.into_node(cx)
IntoNodeCall(p, cx) ==
    LET h == nextHandle
        r == IntoNode(p, cx, h)
        fresh == r \notin live
    IN  /\ fresh => created < MaxNodes
        /\ IF fresh
           THEN LET b == Create(kind, data, h, "text", r.content)
                IN  /\ kind' = b.kind
                    /\ data' = b.data
                    /\ nextHandle' = h + 1
                    /\ created' = created + 1
                    /\ live' = live \cup {r}
           ELSE /\ UNCHANGED <<kind, data, nextHandle, created, live>>
        /\ last' = [Idle EXCEPT !.op = "into_node", !.producer = p, !.cx = cx,
                                !.node = r, !.target = h]
        /\ UNCHANGED <<childNodes, mounts>>

\* Construction, mounting and destruction.
Next ==
    \/ \E el \in ElementInputs : created < MaxNodes /\ ElementNew(el)
    \/ \E content \in TextInputs : created < MaxNodes /\ TextNew(content)
    \/ \E name \in ComponentInputs : created < MaxNodes /\ ComponentNew(name)
    \/ \E target \in ElementNodes, child \in AllNodes :
           MountChild("Element", target, child)
    \/ \E target \in ClosingComments, child \in AllNodes :
           MountChild("Component", target, child)
    \/ \E c \in {m \in live : m.type = "Component"} :
           \E n \in live \ {c} : ComponentAppend(c, n)
    \/ \E n \in live : DropNode(n)

Spec == Init /\ [][Next]_vars

\* The same with handlers that clone a handle into a temporary.
NextClone ==
    \/ \E el \in ElementInputs : created < MaxCloneNodes /\ ElementNew(el)
    \/ \E content \in TextInputs : created < MaxCloneNodes /\ TextNew(content)
    \/ \E name \in ComponentInputs : created < MaxCloneNodes /\ ComponentNew(name)
    \/ \E target \in ElementNodes, child \in AllNodes :
           MountChild("Element", target, child)
    \/ \E target \in ClosingComments, child \in AllNodes :
           MountChild("Component", target, child)
    \/ \E c \in {m \in live : m.type = "Component"} :
           \E n \in live \ {c} : ComponentAppend(c, n)
    \/ \E n \in live : DropNode(n)
    \/ \E h \in WebSysNodes : CloneDropped(h)

SpecClone == Init /\ [][NextClone]_vars

\* Construction and conversion.
NextConv ==
    \/ \E el \in ElementInputs : created < MaxNodes /\ ElementNew(el)
    \/ \E content \in TextInputs : created < MaxNodes /\ TextNew(content)
    \/ \E name \in ComponentInputs : created < MaxNodes /\ ComponentNew(name)
    \/ \E p \in Producers, cx \in Scopes : IntoNodeCall(p, cx)

SpecConv == Init /\ [][NextConv]_vars

-----------------------------------------------------------------------------
(* Properties *)

Components == {n \in AllNodes : n.type = "Component"}

Last(s) == s[Len(s)]

Without(s, hs) == SelectSeq(s, LAMBDA x : x \notin hs)

\* Every handle dropping n runs WebSysNode::drop on.
Owned(n) == Range(DropOrder(n))

MarkersOrdered(cn, c) ==
    LET p == ParentOf(cn, c.opening)
    IN  /\ p # 0
        /\ p = ParentOf(cn, c.closing)
        /\ IndexOf(cn[p], c.opening) < IndexOf(cn[p], c.closing)

\* The handles strictly between two handles of a list.
Between(s, a, b) ==
    IF a \in Range(s) /\ b \in Range(s) /\ IndexOf(s, a) < IndexOf(s, b)
    THEN SubSeq(s, IndexOf(s, a) + 1, IndexOf(s, b) - 1)
    ELSE <<>>

Region(cn, c) == Between(cn[ParentOf(cn, c.opening)], c.opening, c.closing)

\* The handle list the mounting protocol gives a Node: one handle for an
\* Element or Text, the run from opening to closing for a Component.
HandleRun(cn, n) ==
    IF n.type = "Component"
    THEN IF MarkersOrdered(cn, n)
         THEN <<n.opening>> \o Region(cn, n) \o <<n.closing>>
         ELSE <<n.opening, n.closing>>
    ELSE <<n.node>>

\* The last operation mounted a node at a target other than the node's own
\* closing marker, and the backend accepted it.
Mounted ==
    /\ last.op \in {"mount_child", "append"}
    /\ last.ok
    /\ last.parent # 0
    /\ last.target \notin OwnHandles(last.node)

Panics == {"panic: before to not err", "panic: append operation to not err",
           "panic: not yet implemented"}

\* C1: every live Component's opening marker precedes its closing marker
\* under one parent, and a mount into the component with
\* MountKind::Component(c.closing) leaves between the markers what was there
\* before followed by the handles of the mounted node (so the region is the
\* mounted nodes in mount order).
C1_MarkersEncloseMounted ==
    \A c \in Components :
        /\ MarkersOrdered(childNodes, c)
        /\ (Mounted /\ last.kind = "Component" /\ last.target = c.closing)
              => LET run == HandleRun(childNodes, last.node)
                     before == Between(last.pre, c.opening, c.closing)
                 IN  Region(childNodes, c) = Without(before, Range(run)) \o run

\* C2: mounting a Component Foo before a live outer component's closing
\* marker moves [Foo.opening, Foo's mounted children, Foo.closing], which is
\* what get_web_sys_node resolved, to sit immediately before the outer
\* closing marker.
C2_ComponentRunBeforeOuterClosing ==
    (Mounted /\ last.kind = "Component" /\ last.node.type = "Component")
        => LET p == childNodes[last.parent]
               i == IndexOf(p, last.target)
               m == last.moved
           IN  /\ m # <<>>
               /\ Head(m) = last.node.opening
               /\ Last(m) = last.node.closing
               /\ i > Len(m)
               /\ SubSeq(p, i - Len(m), i - 1) = m

\* C4: after mount_child at a target the mounted node's handles are the last
\* children of the parent element, respectively sit immediately before the
\* closing marker, and the children present before keep their order in front
\* of them.
C4_MountedLastInOrder ==
    Mounted
        => LET p == childNodes[last.parent]
               run == HandleRun(childNodes, last.node)
               end == IF last.kind = "Component"
                      THEN IndexOf(p, last.target) - 1
                      ELSE Len(p)
               old == IF last.kind = "Component"
                      THEN SubSeq(last.pre, 1, IndexOf(last.pre, last.target) - 1)
                      ELSE last.pre
           IN  /\ end >= Len(run)
               /\ SubSeq(p, end - Len(run) + 1, end) = run
               /\ SubSeq(p, 1, end - Len(run)) = Without(old, Range(run))

\* C5: when a Component is dropped, WebSysNode::drop runs on every handle of
\* its child list before it runs on the opening or the closing marker.
C5_ChildrenRemovedBeforeMarkers ==
    (last.op = "drop" /\ last.node.type = "Component")
        => LET log == DropOrder(last.node)
               markers == {last.node.opening, last.node.closing}
           IN  \A i, j \in DOMAIN log :
                   (log[i] \notin markers /\ log[j] \in markers) => i < j

\* C9: mount_child ends in a fatal error only when the backend rejects the
\* insertion; when the backend accepts it, mount_child returns normally.
C9_PanicsOnlyOnRejection ==
    last.op = "mount_child" => (last.outcome \in Panics <=> ~last.ok)

\* The last two operations mounted last.node under the element last.target
\* with MountKind::Element and then dropped it.
RoundTrip == last.op = "drop" /\ last.trip

\* C3 as stated: for every Node n (a Component with any number of mounted
\* children included) and parent element P, mounting n under P and then
\* dropping n leaves P's child list as it was before the mount.  The mount is
\* read as starting with n detached from P.
C3_RoundTripAnyNode ==
    (RoundTrip /\ Owned(last.node) \cap Range(last.pre) = {})
        => childNodes[last.target] = last.pre

\* The round trip starts detached and moves only what n owns: none of n's
\* handles is a child of P before the mount, and every backend node the mount
\* moves under P is one that dropping n removes.
OwnsWhatItMoves ==
    /\ Owned(last.node) \cap Range(last.pre) = {}
    /\ Range(last.moved) \subseteq Owned(last.node)

\* C3 amended: the round trip restores P's child list when n starts detached
\* from P and owns every backend node the mount moves (an Element, a Text,
\* or a Component whose mounted children are all in its child list).
C3_RoundTripOwned ==
    (RoundTrip /\ OwnsWhatItMoves) => childNodes[last.target] = last.pre

\* A Component with a non-empty child list went through the round trip.
C3_Witness ==
    /\ RoundTrip
    /\ OwnsWhatItMoves
    /\ last.node.type = "Component"
    /\ last.node.children # <<>>
    /\ Len(last.moved) > 2

\* The handles that have a parent.
Attached(cn) == UNION {Range(cn[p]) : p \in DOMAIN cn}

\* The handles that had a parent and have none after the step.
Detached == Attached(childNodes) \ Attached(childNodes')

\* C6 as stated: a handle is removed from its parent only by the drop of
\* the Node that owns it.
C6_DetachedOnlyByOwnerDrop ==
    [][\A h \in Detached : last'.op = "drop" /\ h \in Owned(last'.node)]_vars

\* No backend handle is held by two Node values, nor twice by one.
OneOwner ==
    /\ \A n \in AllNodes : n.type = "Component" => n.opening # n.closing
    /\ \A n, m \in AllNodes : n # m => OwnHandles(n) \cap OwnHandles(m) = {}

\* C6 amended: no handle is held by two Nodes, and a handle is removed from
\* its parent only by the drop of the Node that owns it or by the drop of a
\* clone of its WebSysNode / Comment, which detaches it while the owning
\* Node is still alive.
C6_DetachedOnlyByDrop ==
    /\ []OneOwner
    /\ [][\A h \in Detached :
             \/ last'.op = "drop" /\ h \in Owned(last'.node)
             \/ last'.op = "drop_clone" /\ last'.target = h]_vars

\* A dropped clone detached a marker of a Component that is still alive.
C6_Witness ==
    /\ last.op = "drop_clone"
    /\ last.parent # 0
    /\ kind[last.parent] = "element"
    /\ ParentOf(childNodes, last.target) = 0
    /\ \E c \in live : c.type = "Component" /\ last.target \in OwnHandles(c)

Constructors == {"Element::new", "Text::new", "Component::new"}

NewHandles == nextHandle..(nextHandle' - 1)

\* C7: a constructor creates one element, one text node, or two comments and
\* their fragment; no new handle becomes a child of a node that existed
\* before, and the child lists of the nodes that existed are unchanged.
C7_ConstructionNeverMounts ==
    [][last'.op \in Constructors =>
          /\ \A h \in Handles : h < nextHandle => childNodes'[h] = childNodes[h]
          /\ \A h \in NewHandles :
                 \/ ParentOf(childNodes', h) = 0
                 \/ /\ ParentOf(childNodes', h) \in NewHandles
                    /\ kind'[ParentOf(childNodes', h)] = "fragment"
          /\ last'.op = "Element::new" =>
                 /\ Cardinality(NewHandles) = 1
                 /\ kind'[last'.node.node] = "element"
                 /\ ParentOf(childNodes', last'.node.node) = 0
          /\ last'.op = "Text::new" =>
                 /\ Cardinality(NewHandles) = 1
                 /\ kind'[last'.node.node] = "text"
                 /\ ParentOf(childNodes', last'.node.node) = 0
          /\ last'.op = "Component::new" =>
                 /\ Cardinality({h \in NewHandles : kind'[h] = "comment"}) = 2
                 /\ kind'[last'.node.opening] = "comment"
                 /\ kind'[last'.node.closing] = "comment"
                 /\ childNodes'[last'.node.fragment]
                       = <<last'.node.opening, last'.node.closing>>]_vars

\* A Component was constructed while another node had children.
C7_Witness ==
    /\ last.op = "Component::new"
    /\ childNodes[last.node.fragment] = <<last.node.opening, last.node.closing>>
    /\ \E h \in Handles : kind[h] = "element" /\ childNodes[h] # <<>>

\* A Node value without its backend handle.
Shape(n) == [n EXCEPT !.node = 0]

\* C8: into_node on () and on None give the placeholder of the Unit
\* conversion, on Some(t) what t.into_node gives, and on a Node the Node.
C8_ConversionsAgree ==
    last.op = "into_node" =>
        LET p == last.producer
            cx == last.cx
            h == last.target
        IN  /\ p.ty = "()" => last.node = UnitIntoNode(cx, h)
            /\ (p.ty = "Option" /\ ~p.some) =>
                   /\ last.node = IntoNode(UnitProducer, cx, h)
                   /\ \A cx2 \in Scopes, h2 \in Handles :
                          Shape(last.node) = Shape(IntoNode(UnitProducer, cx2, h2))
            /\ (p.ty = "Option" /\ p.some /\ p.inner = "()") =>
                   last.node = IntoNode(UnitProducer, cx, h)
            /\ (p.ty = "Option" /\ p.some /\ p.inner = "Node") =>
                   last.node = IntoNode(NodeProducer(p.node), cx, h)
            /\ p.ty = "Node" => last.node = p.node

\* None was converted after () had been: two placeholders that differ only
\* in their backend handle.
C8_Witness ==
    /\ last.op = "into_node"
    /\ last.producer.ty = "Option"
    /\ ~last.producer.some
    /\ \E n \in live : n # last.node /\ Shape(n) = Shape(last.node)

====
